---- MODULE Spec2Model ----
(***************************************************************************)
(* The illness lifecycle of illness_plugin: the catalog of illness_types,  *)
(* the IllnessManager of illness_manager and the handlers of plugin that   *)
(* drive it (scheduler tick, /health, /force_recovery, /force_sick).       *)
(*                                                                         *)
(* Units.  Timestamps and durations are whole seconds (time.time() is a    *)
(* float number of seconds; every instant of the model is a multiple of    *)
(* ClockStep).  The source's hours are seconds / 3600, so a comparison of  *)
(* hours is the same comparison of seconds, and progress < 0.3 is          *)
(* 10 * elapsed < 3 * expected.  Severities are tenths (0.8 is 8).         *)
(* Probabilities and random.random() draws are percents (0.7 is 70).       *)
(***************************************************************************)
EXTENDS Integers, Sequences, FiniteSets, TLC

VARIABLES
    now,                 \* the wall clock, time.time()
    current_illness,     \* IllnessManager.current_illness (None or IllnessInfo)
    last_recovery_time,  \* IllnessManager.last_recovery_time
    cool_down_end_time,  \* IllnessManager.cool_down_end_time
    storage,             \* the plugin's local storage: keys illness_state, illness_history
    storage_ok,          \* whether the storage collaborator answers (FALSE: get/set raise)
    appended,            \* history variable: every record a resolution has produced, in order
    last_op,             \* history variable: the handler that ran last and the branches it took
    prompt_manager       \* IllnessPrompt.illness_manager: the prompt component's own manager

vars == <<now, current_illness, last_recovery_time, cool_down_end_time,
          storage, storage_ok, appended, last_op, prompt_manager>>

-----------------------------------------------------------------------------
(* Bounds of the model. *)

\* the clock takes the values 0, ClockStep, ..., MaxClockSteps * ClockStep
MaxClockSteps == 4
\* resolutions (history appends) per behaviour of Spec
MaxEpisodes == 1
\* recovery.cool_down_days is drawn from 1 .. MaxCoolDownDays
MaxCoolDownDays == 1
\* the clock steps and the resolutions per behaviour of SpecHistory
MaxHistoryClockSteps == 2
MaxHistoryEpisodes == 22
\* the last clock step and the resolutions per behaviour of SpecStore, whose
\* clock starts at LoadTime
MaxStoreClockSteps == 5
MaxStoreEpisodes == 1
\* the clock steps and the resolutions per behaviour of SpecRollback and of
\* SpecRaise
MaxFaultClockSteps == 2
MaxFaultEpisodes == 1
\* get_illness_history is asked for limit in 0 .. MaxLimit
MaxLimit == 2
\* SpecPrompt: clock steps and resolutions while an IllnessPrompt exists
MaxPromptClockSteps == 4
MaxPromptEpisodes == 1
\* SpecLive: the clock takes MaxLiveClockSteps steps, the one episode ends
MaxLiveClockSteps == 8
MaxLiveEpisodes == 1

\* one step of the clock: twelve hours
ClockStep == 12 * 3600
\* outcomes of random.random(), as percents of [0, 1)
RandomDraws == {0, 99}
\* values of probability.daily_probability, as percents
DailyProbabilities == {0, 100}

-----------------------------------------------------------------------------
(* illness_types: the catalog. *)

IllnessType ==
    {"SEVERE_COLD", "MILD_COLD", "TONSILLITIS", "GASTROENTERITIS", "SKIN_ALLERGY",
     "MINOR_SCRATCH", "HEADACHE", "STIFF_NECK", "ANKLE_SPRAIN", "NOSEBLEED",
     "MOUTH_ULCER"}

\* IllnessType.value of each member.  The source's values are Chinese strings;
\* they are written here in pinyin.
IllnessTypeValue ==
    [k \in IllnessType |->
        CASE k = "SEVERE_COLD" -> "zhong gan mao"
          [] k = "MILD_COLD" -> "qing gan mao"
          [] k = "TONSILLITIS" -> "bian tao ti yan/yan yan"
          [] k = "GASTROENTERITIS" -> "chang wei bu shi(fu xie)"
          [] k = "SKIN_ALLERGY" -> "pi fu guo min/pi zhen"
          [] k = "MINOR_SCRATCH" -> "qing wei ca shang"
          [] k = "HEADACHE" -> "qing wei tou tong"
          [] k = "STIFF_NECK" -> "lao zhen"
          [] k = "ANKLE_SPRAIN" -> "jiao huai niu shang"
          [] k = "NOSEBLEED" -> "bi xue"
          [] k = "MOUTH_ULCER" -> "kou qiang kui yang"]

\* current_illness = None
None == [illness_type |-> "NONE", start_time |-> 0, severity |-> 0, stage |-> "none"]

\* the dataclass IllnessInfo
IllnessInfo(illness_type, start_time, severity, stage) ==
    [illness_type |-> illness_type, start_time |-> start_time,
     severity |-> severity, stage |-> stage]

\* IllnessInfo.get_duration_hours, in seconds, read at clock value t
get_duration_hours(illness, t) == t - illness.start_time

\* ILLNESS_DURATION_HOURS, in seconds
ILLNESS_DURATION_HOURS ==
    [k \in IllnessType |->
        CASE k \in {"SEVERE_COLD", "MILD_COLD", "TONSILLITIS", "SKIN_ALLERGY",
                    "ANKLE_SPRAIN", "MOUTH_ULCER"} -> 48 * 3600
          [] k \in {"GASTROENTERITIS", "MINOR_SCRATCH", "HEADACHE", "STIFF_NECK"} -> 24 * 3600
          [] k = "NOSEBLEED" -> 3600 \div 2]

\* ILLNESS_TRANSITIONS in a faulty variant: MILD_COLD leads back to SEVERE_COLD
ILLNESS_TRANSITIONS_cyclic ==
    [k \in IllnessType |->
        IF k = "SEVERE_COLD" THEN <<"MILD_COLD">>
        ELSE IF k = "MILD_COLD" THEN <<"SEVERE_COLD">> ELSE <<>>]

\* ILLNESS_TRANSITIONS
ILLNESS_TRANSITIONS ==
    [k \in IllnessType |-> IF k = "SEVERE_COLD" THEN <<"MILD_COLD">> ELSE <<>>]

\* ILLNESS_SEVERITY, in tenths
ILLNESS_SEVERITY ==
    [k \in IllnessType |->
        CASE k = "SEVERE_COLD" -> 8
          [] k = "TONSILLITIS" -> 6
          [] k \in {"GASTROENTERITIS", "ANKLE_SPRAIN"} -> 5
          [] k \in {"SKIN_ALLERGY", "MOUTH_ULCER"} -> 4
          [] k \in {"MILD_COLD", "HEADACHE", "STIFF_NECK", "NOSEBLEED"} -> 3
          [] k = "MINOR_SCRATCH" -> 2]

\* ILLNESS_DESCRIPTIONS: the text of each kind (Chinese in the source), by its
\* opening words in English
ILLNESS_DESCRIPTIONS ==
    [k \in IllnessType |->
        CASE k = "SEVERE_COLD" -> "marked upper respiratory infection symptoms"
          [] k = "MILD_COLD" -> "slight cold symptoms"
          [] k = "TONSILLITIS" -> "slight redness of the throat or tonsils"
          [] k = "GASTROENTERITIS" -> "temporary gastrointestinal disorder"
          [] k = "SKIN_ALLERGY" -> "slight local rash"
          [] k = "MINOR_SCRATCH" -> "slight scratch of the skin surface"
          [] k = "HEADACHE" -> "slight dull headache"
          [] k = "STIFF_NECK" -> "slight tension of the neck muscles"
          [] k = "ANKLE_SPRAIN" -> "slight discomfort of the ankle"
          [] k = "NOSEBLEED" -> "a small nosebleed on one side"
          [] k = "MOUTH_ULCER" -> "a small ulcer of the oral mucosa"]

\* dict.get with the default of each lookup function
get_illness_description(illness_type) ==
    IF illness_type \in DOMAIN ILLNESS_DESCRIPTIONS
    THEN ILLNESS_DESCRIPTIONS[illness_type] ELSE "unwell, needs rest"

get_illness_duration(illness_type) ==
    IF illness_type \in DOMAIN ILLNESS_DURATION_HOURS
    THEN ILLNESS_DURATION_HOURS[illness_type] ELSE 24 * 3600

get_illness_severity(illness_type) ==
    IF illness_type \in DOMAIN ILLNESS_SEVERITY THEN ILLNESS_SEVERITY[illness_type] ELSE 5

get_possible_transitions(illness_type) ==
    IF illness_type \in DOMAIN ILLNESS_TRANSITIONS
    THEN ILLNESS_TRANSITIONS[illness_type] ELSE <<>>

-----------------------------------------------------------------------------
(* The storage collaborator and the manager as one value.  A stored dict   *)
(* is a record whose domain is the set of keys it holds.                   *)

\* dict.get(key, default)
dict_get(d, key, default) == IF key \in DOMAIN d THEN d[key] ELSE default

\* storage.get("illness_state", {}) of a store that was never written: {}
NoStateData == <<>>

\* IllnessManager.__init__ on an empty store
NewManager ==
    [current_illness |-> None, last_recovery_time |-> 0, cool_down_end_time |-> 0,
     storage |-> [illness_state |-> NoStateData, illness_history |-> <<>>],
     storage_ok |-> TRUE]

\* the manager and its store in the current state
Mgr ==
    [current_illness |-> current_illness, last_recovery_time |-> last_recovery_time,
     cool_down_end_time |-> cool_down_end_time, storage |-> storage,
     storage_ok |-> storage_ok]

\* no IllnessPrompt has been constructed yet
NoPrompt ==
    [constructed |-> FALSE, current_illness |-> None, last_recovery_time |-> 0,
     cool_down_end_time |-> 0]

\* the dict save_state stores under "current_illness"
illness_dict(illness) ==
    IF illness = None
    THEN None
    ELSE [type |-> IllnessTypeValue[illness.illness_type],
          start_time |-> illness.start_time,
          severity |-> illness.severity,
          stage |-> illness.stage]

\* save_state in a faulty variant: a failed set drops the illness held in memory
save_state_forgets_on_failure(m, t) ==
    IF m.storage_ok
    THEN [m EXCEPT !.storage.illness_state =
            [current_illness |-> illness_dict(m.current_illness),
             last_recovery_time |-> m.last_recovery_time,
             cool_down_end_time |-> m.cool_down_end_time,
             last_update |-> t]]
    ELSE [m EXCEPT !.current_illness = None]

\* IllnessManager.save_state at clock value t: the except clause swallows a failed set
save_state(m, t) ==
    IF m.storage_ok
    THEN [m EXCEPT !.storage.illness_state =
            [current_illness |-> illness_dict(m.current_illness),
             last_recovery_time |-> m.last_recovery_time,
             cool_down_end_time |-> m.cool_down_end_time,
             last_update |-> t]]
    ELSE m

\* IllnessType(value): the member with that value; KeyError and ValueError of
\* load_state's try block are the cases load_raises lists
IllnessType_of(value) == CHOOSE k \in IllnessType : IllnessTypeValue[k] = value

\* bool(state_data.get("current_illness")): neither None nor an empty dict
has_current_illness(state_data) ==
    LET illness_data == dict_get(state_data, "current_illness", None)
    IN  illness_data # None /\ DOMAIN illness_data # {}

\* whether the try block of load_state raises: storage.get fails, or the
\* stored illness has no "type", a type that is no IllnessType value, or no
\* "start_time"
load_raises(m) ==
    \/ ~m.storage_ok
    \/ /\ has_current_illness(m.storage.illness_state)
       /\ LET illness_data == m.storage.illness_state.current_illness
          IN  \/ "type" \notin DOMAIN illness_data
              \/ \A k \in IllnessType : IllnessTypeValue[k] # illness_data.type
              \/ "start_time" \notin DOMAIN illness_data

\* load_state in a faulty variant: the stage is not read back
load_state_drops_stage(m) ==
    IF load_raises(m)
    THEN [m EXCEPT !.current_illness = None,
                   !.last_recovery_time = 0,
                   !.cool_down_end_time = 0]
    ELSE LET state_data == m.storage.illness_state
             illness_data == state_data.current_illness
         IN  [m EXCEPT
                 !.current_illness =
                     IF has_current_illness(state_data)
                     THEN IllnessInfo(IllnessType_of(illness_data.type),
                                      illness_data.start_time,
                                      dict_get(illness_data, "severity", 5),
                                      "initial")
                     ELSE m.current_illness,
                 !.last_recovery_time = dict_get(state_data, "last_recovery_time", 0),
                 !.cool_down_end_time = dict_get(state_data, "cool_down_end_time", 0)]

\* load_state in a faulty variant: the except clause keeps the two timestamps
\* of the stored dict
load_state_keeps_timestamps(m) ==
    IF load_raises(m)
    THEN IF m.storage_ok
         THEN [m EXCEPT !.current_illness = None,
                        !.last_recovery_time =
                            dict_get(m.storage.illness_state, "last_recovery_time", 0),
                        !.cool_down_end_time =
                            dict_get(m.storage.illness_state, "cool_down_end_time", 0)]
         ELSE [m EXCEPT !.current_illness = None,
                        !.last_recovery_time = 0,
                        !.cool_down_end_time = 0]
    ELSE LET state_data == m.storage.illness_state
             illness_data == state_data.current_illness
         IN  [m EXCEPT
                 !.current_illness =
                     IF has_current_illness(state_data)
                     THEN IllnessInfo(IllnessType_of(illness_data.type),
                                      illness_data.start_time,
                                      dict_get(illness_data, "severity", 5),
                                      dict_get(illness_data, "stage", "initial"))
                     ELSE m.current_illness,
                 !.last_recovery_time = dict_get(state_data, "last_recovery_time", 0),
                 !.cool_down_end_time = dict_get(state_data, "cool_down_end_time", 0)]

\* IllnessManager.load_state: the except clause resets the three fields
load_state(m) ==
    IF load_raises(m)
    THEN [m EXCEPT !.current_illness = None,
                   !.last_recovery_time = 0,
                   !.cool_down_end_time = 0]
    ELSE LET state_data == m.storage.illness_state
             illness_data == state_data.current_illness
         IN  [m EXCEPT
                 !.current_illness =
                     IF has_current_illness(state_data)
                     THEN IllnessInfo(IllnessType_of(illness_data.type),
                                      illness_data.start_time,
                                      dict_get(illness_data, "severity", 5),
                                      dict_get(illness_data, "stage", "initial"))
                     ELSE m.current_illness,
                 !.last_recovery_time = dict_get(state_data, "last_recovery_time", 0),
                 !.cool_down_end_time = dict_get(state_data, "cool_down_end_time", 0)]

\* IllnessManager.__init__: the defaults, then load_state
IllnessManager(store, ok) ==
    load_state([current_illness |-> None, last_recovery_time |-> 0,
                cool_down_end_time |-> 0, storage |-> store, storage_ok |-> ok])

-----------------------------------------------------------------------------
(* illness_manager: the operations of IllnessManager, each a function of   *)
(* the manager m, the clock value t it reads and the random draws it makes.*)

\* the slice seq[i:] of a Python list (a negative i counts from the end)
PySliceFrom(seq, i) ==
    LET n == Len(seq)
        start == IF i < 0 THEN (IF n + i > 0 THEN n + i ELSE 0)
                          ELSE (IF i < n THEN i ELSE n)
    IN  SubSeq(seq, start + 1, n)

\* the history_record dict of _add_to_history (duration_hours in seconds)
history_record(illness, end_time) ==
    [type |-> illness.illness_type,
     start_time |-> illness.start_time,
     end_time |-> end_time,
     duration_hours |-> end_time - illness.start_time,
     severity |-> illness.severity]

\* _add_to_history in a faulty variant: on overflow it keeps the first 20
_add_to_history_keeps_oldest(m, illness, end_time) ==
    IF m.storage_ok
    THEN LET history == Append(m.storage.illness_history, history_record(illness, end_time))
         IN  [m EXCEPT !.storage.illness_history =
                 IF Len(history) > 20 THEN SubSeq(history, 1, 20) ELSE history]
    ELSE m

\* IllnessManager._add_to_history: append, keep the last 20, write back
_add_to_history(m, illness, end_time) ==
    IF m.storage_ok
    THEN LET history == Append(m.storage.illness_history, history_record(illness, end_time))
         IN  [m EXCEPT !.storage.illness_history =
                 IF Len(history) > 20 THEN PySliceFrom(history, -20) ELSE history]
    ELSE m

\* recover_from_illness in a faulty variant: last_recovery_time is not set
recover_from_illness_no_timestamp(m, t) ==
    IF m.current_illness # None
    THEN LET m1 == _add_to_history(m, m.current_illness, t)
         IN  save_state([m1 EXCEPT !.current_illness = None], t)
    ELSE m

\* recover_from_illness in a faulty variant: the resolution opens a one-day
\* cooldown window
recover_from_illness_starts_cooldown(m, t) ==
    IF m.current_illness # None
    THEN LET m1 == _add_to_history(m, m.current_illness, t)
         IN  save_state([m1 EXCEPT !.current_illness = None,
                                   !.last_recovery_time = t,
                                   !.cool_down_end_time = t + 24 * 3600], t)
    ELSE m

\* IllnessManager.recover_from_illness
recover_from_illness(m, t) ==
    IF m.current_illness # None
    THEN LET m1 == _add_to_history(m, m.current_illness, t)
         IN  save_state([m1 EXCEPT !.current_illness = None,
                                   !.last_recovery_time = t], t)
    ELSE m

\* transition_to_illness in a faulty variant: the old start_time is kept
transition_to_illness_keeps_start(m, new_illness_type, t) ==
    save_state([m EXCEPT !.current_illness =
                   IllnessInfo(new_illness_type, m.current_illness.start_time,
                               get_illness_severity(new_illness_type), "initial")], t)

\* transition_to_illness in a faulty variant: the illness left behind gets a
\* history record
transition_to_illness_records(m, new_illness_type, t) ==
    LET m1 == _add_to_history(m, m.current_illness, t)
    IN  save_state([m1 EXCEPT !.current_illness =
                       IllnessInfo(new_illness_type, t,
                                   get_illness_severity(new_illness_type), "initial")], t)

\* IllnessManager.transition_to_illness
transition_to_illness(m, new_illness_type, t) ==
    save_state([m EXCEPT !.current_illness =
                   IllnessInfo(new_illness_type, t,
                               get_illness_severity(new_illness_type), "initial")], t)

\* the stage of _update_illness_stage for progress = duration / expected
stage_of(duration, expected) ==
    LET below(tenths) ==
            IF expected > 0 THEN 10 * duration < tenths * expected ELSE 0 < tenths
    IN  IF below(3) THEN "initial"
        ELSE IF below(7) THEN "progressing"
        ELSE "recovering"

\* _update_illness_stage in a faulty variant: the new stage is not saved
_update_illness_stage_unsaved(m, duration_hours, expected_duration, t) ==
    IF m.current_illness = None
    THEN m
    ELSE [m EXCEPT !.current_illness.stage =
             stage_of(duration_hours, expected_duration)]

\* IllnessManager._update_illness_stage
_update_illness_stage(m, duration_hours, expected_duration, t) ==
    IF m.current_illness = None
    THEN m
    ELSE LET new_stage == stage_of(duration_hours, expected_duration) IN
         IF m.current_illness.stage # new_stage
         THEN save_state([m EXCEPT !.current_illness.stage = new_stage], t)
         ELSE m

\* random.choice(seq) for a draw r of random.random()
random_choice(seq, r) == seq[((r * Len(seq)) \div 100) + 1]

\* the branch update_illness_state takes for the draw r of random.random()
update_branch(m, t, r) ==
    IF m.current_illness = None THEN "healthy"
    ELSE IF get_duration_hours(m.current_illness, t)
              >= get_illness_duration(m.current_illness.illness_type)
         THEN IF get_possible_transitions(m.current_illness.illness_type) # <<>> /\ r < 70
              THEN "transition"
              ELSE "recover"
         ELSE "stage"

\* update_illness_state in a faulty variant: an illness ends only strictly
\* after its nominal duration
update_illness_state_strictly_after(m, t, r, rc) ==
    IF m.current_illness = None
    THEN m
    ELSE LET duration_hours == get_duration_hours(m.current_illness, t)
             illness_type == m.current_illness.illness_type
             expected_duration == get_illness_duration(illness_type)
             possible_transitions == get_possible_transitions(illness_type)
             m1 == IF duration_hours > expected_duration
                   THEN IF possible_transitions # <<>> /\ r < 70
                        THEN transition_to_illness(
                                 m, random_choice(possible_transitions, rc), t)
                        ELSE recover_from_illness(m, t)
                   ELSE m
         IN  _update_illness_stage(m1, duration_hours, expected_duration, t)

\* IllnessManager.update_illness_state; r decides the 70% branch, rc the successor
update_illness_state(m, t, r, rc) ==
    IF m.current_illness = None
    THEN m
    ELSE LET duration_hours == get_duration_hours(m.current_illness, t)
             illness_type == m.current_illness.illness_type
             expected_duration == get_illness_duration(illness_type)
             possible_transitions == get_possible_transitions(illness_type)
             m1 == IF duration_hours >= expected_duration
                   THEN IF possible_transitions # <<>>
                        THEN IF r < 70
                             THEN transition_to_illness(
                                      m, random_choice(possible_transitions, rc), t)
                             ELSE recover_from_illness(m, t)
                        ELSE recover_from_illness(m, t)
                   ELSE m
         IN  _update_illness_stage(m1, duration_hours, expected_duration, t)

\* should_get_sick in a faulty variant: the cooldown is not consulted
should_get_sick_no_cooldown(m, daily_probability, t, r) ==
    IF m.current_illness # None THEN FALSE
    ELSE r < daily_probability

\* should_get_sick in a faulty variant: the window is measured from
\* last_recovery_time instead of cool_down_end_time
should_get_sick_wrong_field(m, daily_probability, t, r) ==
    IF t < m.last_recovery_time THEN FALSE
    ELSE IF m.current_illness # None THEN FALSE
    ELSE r < daily_probability

\* should_get_sick in a faulty variant: the current illness is not consulted
should_get_sick_ignores_illness(m, daily_probability, t, r) ==
    IF t < m.cool_down_end_time THEN FALSE
    ELSE r < daily_probability

\* IllnessManager.should_get_sick for the draw r of random.random()
should_get_sick(m, daily_probability, t, r) ==
    IF t < m.cool_down_end_time THEN FALSE
    ELSE IF m.current_illness # None THEN FALSE
    ELSE r < daily_probability

\* the weights dict in a faulty variant: SEVERE_COLD has weight 0
weights_without_severe_cold ==
    << <<"MILD_COLD", 30>>, <<"HEADACHE", 20>>, <<"STIFF_NECK", 15>>,
       <<"MINOR_SCRATCH", 15>>, <<"NOSEBLEED", 10>>, <<"MOUTH_ULCER", 15>>,
       <<"GASTROENTERITIS", 10>>, <<"SKIN_ALLERGY", 10>>, <<"TONSILLITIS", 8>>,
       <<"ANKLE_SPRAIN", 8>>, <<"SEVERE_COLD", 0>> >>

\* the weights dict of _get_weighted_random_illness, in insertion order
weights ==
    << <<"MILD_COLD", 30>>, <<"HEADACHE", 20>>, <<"STIFF_NECK", 15>>,
       <<"MINOR_SCRATCH", 15>>, <<"NOSEBLEED", 10>>, <<"MOUTH_ULCER", 15>>,
       <<"GASTROENTERITIS", 10>>, <<"SKIN_ALLERGY", 10>>, <<"TONSILLITIS", 8>>,
       <<"ANKLE_SPRAIN", 5>>, <<"SEVERE_COLD", 3>> >>

RECURSIVE cum_weight(_)
\* the cumulative weight of the first i entries
cum_weight(i) == IF i = 0 THEN 0 ELSE cum_weight(i - 1) + weights[i][2]

\* the cumulative scale random.choices builds from the weights
cum_weights == [i \in 0..Len(weights) |-> cum_weight(i)]

total_weight == cum_weights[Len(weights)]

\* IllnessManager._get_weighted_random_illness: random.choices(types, weights, k=1)[0]
\* for the point u = floor(random() * total) of the cumulative scale
_get_weighted_random_illness(u) ==
    LET i == CHOOSE j \in 1..Len(weights) : cum_weights[j - 1] <= u /\ u < cum_weights[j]
    IN  weights[i][1]

\* the calls of trigger_random_illness's try block that may be made to raise
RaisePoints == {"none", "selection", "severity"}

\* trigger_random_illness in a faulty variant: the cooldown is closed as well
trigger_random_illness_try_ends_cooldown(m, t, u, raises) ==
    IF raises = "selection"
    THEN [manager |-> m, result |-> None]
    ELSE LET illness_type == _get_weighted_random_illness(u) IN
         IF raises = "severity"
         THEN [manager |-> m, result |-> None]
         ELSE LET m1 == save_state(
                            [m EXCEPT !.current_illness =
                                          IllnessInfo(illness_type, t,
                                                      get_illness_severity(illness_type),
                                                      "initial"),
                                      !.cool_down_end_time = 0], t)
              IN  [manager |-> m1, result |-> m1.current_illness]

\* trigger_random_illness in a faulty variant: the illness is assigned before
\* its severity is looked up
trigger_random_illness_try_assigns_first(m, t, u, raises) ==
    IF raises = "selection"
    THEN [manager |-> m, result |-> None]
    ELSE LET illness_type == _get_weighted_random_illness(u) IN
         IF raises = "severity"
         THEN [manager |-> [m EXCEPT !.current_illness =
                                         IllnessInfo(illness_type, t, 5, "initial")],
               result |-> None]
         ELSE LET m1 == save_state(
                            [m EXCEPT !.current_illness =
                                          IllnessInfo(illness_type, t,
                                                      get_illness_severity(illness_type),
                                                      "initial")], t)
              IN  [manager |-> m1, result |-> m1.current_illness]

\* IllnessManager.trigger_random_illness with its except clause: the manager it
\* leaves and the value it returns, when the call named by raises raises
\* ("selection": _get_weighted_random_illness, "severity": get_illness_severity
\* while the IllnessInfo is built, before it is assigned)
trigger_random_illness_try(m, t, u, raises) ==
    IF raises = "selection"
    THEN [manager |-> m, result |-> None]
    ELSE LET illness_type == _get_weighted_random_illness(u) IN
         IF raises = "severity"
         THEN [manager |-> m, result |-> None]
         ELSE LET m1 == save_state(
                            [m EXCEPT !.current_illness =
                                          IllnessInfo(illness_type, t,
                                                      get_illness_severity(illness_type),
                                                      "initial")], t)
              IN  [manager |-> m1, result |-> m1.current_illness]

\* IllnessManager.trigger_random_illness when nothing raises
trigger_random_illness(m, t, u) == trigger_random_illness_try(m, t, u, "none").manager

\* force_recovery in a faulty variant: a healthy manager is stamped as recovered
force_recovery_stamps_healthy(m, t) ==
    IF m.current_illness # None
    THEN recover_from_illness(m, t)
    ELSE save_state([m EXCEPT !.last_recovery_time = t], t)

\* IllnessManager.force_recovery
force_recovery(m, t) ==
    IF m.current_illness # None THEN recover_from_illness(m, t) ELSE m

\* set_cool_down in a faulty variant: the days are taken for hours
set_cool_down_in_hours(m, cool_down_days, t) ==
    save_state([m EXCEPT !.cool_down_end_time = t + (cool_down_days * 3600)], t)

\* IllnessManager.set_cool_down
set_cool_down(m, cool_down_days, t) ==
    save_state([m EXCEPT !.cool_down_end_time = t + (cool_down_days * 24 * 3600)], t)

\* get_health_status in a faulty variant: the days-based text from 24 hours on
get_health_status_days_from_24(m, t) ==
    LET in_cool_down == t < m.cool_down_end_time
        illness == m.current_illness
        duration_hours == get_duration_hours(illness, t)
        expected_duration == get_illness_duration(illness.illness_type)
        remaining_hours == IF expected_duration - duration_hours > 0
                           THEN expected_duration - duration_hours ELSE 0
    IN  [is_healthy |-> m.current_illness = None,
         in_cool_down |-> in_cool_down,
         cool_down_remaining |-> IF in_cool_down THEN m.cool_down_end_time - t ELSE 0,
         last_recovery_time |-> m.last_recovery_time,
         current_illness |->
             IF m.current_illness # None
             THEN [type |-> illness.illness_type,
                   description |-> get_illness_description(illness.illness_type),
                   start_time |-> illness.start_time,
                   duration_hours |-> duration_hours,
                   remaining_hours |-> remaining_hours,
                   severity |-> illness.severity,
                   stage |-> illness.stage,
                   recovery_time_text |->
                       IF remaining_hours >= 24 * 3600 THEN "days" ELSE "hours"]
             ELSE [type |-> "NONE", description |-> "", start_time |-> 0, duration_hours |-> 0,
                   remaining_hours |-> 0, severity |-> 0, stage |-> "none",
                   recovery_time_text |-> "none"]]

\* IllnessManager.get_health_status (durations in seconds)
get_health_status(m, t) ==
    LET in_cool_down == t < m.cool_down_end_time
        illness == m.current_illness
        duration_hours == get_duration_hours(illness, t)
        expected_duration == get_illness_duration(illness.illness_type)
        remaining_hours == IF expected_duration - duration_hours > 0
                           THEN expected_duration - duration_hours ELSE 0
    IN  [is_healthy |-> m.current_illness = None,
         in_cool_down |-> in_cool_down,
         cool_down_remaining |-> IF in_cool_down THEN m.cool_down_end_time - t ELSE 0,
         last_recovery_time |-> m.last_recovery_time,
         current_illness |->
             IF m.current_illness # None
             THEN [type |-> illness.illness_type,
                   description |-> get_illness_description(illness.illness_type),
                   start_time |-> illness.start_time,
                   duration_hours |-> duration_hours,
                   remaining_hours |-> remaining_hours,
                   severity |-> illness.severity,
                   stage |-> illness.stage,
                   recovery_time_text |->
                       IF remaining_hours > 24 * 3600 THEN "days" ELSE "hours"]
             ELSE [type |-> "NONE", description |-> "", start_time |-> 0, duration_hours |-> 0,
                   remaining_hours |-> 0, severity |-> 0, stage |-> "none",
                   recovery_time_text |-> "none"]]

\* IllnessManager.get_illness_history
get_illness_history(m, limit) ==
    IF m.storage_ok
    THEN IF m.storage.illness_history # <<>>
         THEN PySliceFrom(m.storage.illness_history, -limit) ELSE <<>>
    ELSE <<>>

\* IllnessManager.get_current_illness_description; "None" stands for the
\* None of Optional[str]
get_current_illness_description(m) ==
    IF m.current_illness # None
    THEN get_illness_description(m.current_illness.illness_type)
    ELSE "None"

\* the manager after get_health_status in a faulty variant: the query brings
\* the stored stage up to date
after_get_health_status_refreshes_stage(m, t) ==
    IF m.current_illness = None
    THEN m
    ELSE _update_illness_stage(m, get_duration_hours(m.current_illness, t),
                               get_illness_duration(m.current_illness.illness_type), t)

\* the manager after get_health_status: the method assigns no attribute of
\* self and calls no method of the store
after_get_health_status(m, t) == m

\* the manager after should_get_sick: the method only reads cool_down_end_time
\* and current_illness
after_should_get_sick(m, daily_probability, t, r) == m

\* the manager after get_illness_history: the method only calls storage.get
\* and slices the list it gets
after_get_illness_history(m, limit) == m

\* the manager after get_current_illness_description: the method only reads
\* current_illness
after_get_current_illness_description(m) == m

-----------------------------------------------------------------------------
(* plugin: the handlers, each one atomic step at the clock value now.      *)

\* the points of random.choices' cumulative scale the model draws: one in the
\* range of MILD_COLD, one in HEADACHE's, one in SEVERE_COLD's
WeightDraws == {0, 30, total_weight - 1}

\* the state a handler leaves: the manager m, the records its resolutions
\* produced and what it did
Commit(m, records, op) ==
    /\ current_illness' = m.current_illness
    /\ last_recovery_time' = m.last_recovery_time
    /\ cool_down_end_time' = m.cool_down_end_time
    /\ storage' = m.storage
    /\ storage_ok' = m.storage_ok
    /\ appended' = appended \o records
    /\ last_op' = op
    /\ UNCHANGED <<now, prompt_manager>>

\* the record a resolution of m's illness at t produces, if the branch resolves
resolved(m, branch, t) ==
    IF branch = "recover" THEN <<history_record(m.current_illness, t)>> ELSE <<>>

Op(name, branch, triggered) == [name |-> name, branch |-> branch, triggered |-> triggered]

\* time passes
ClockAdvance(max_steps) ==
    /\ now + ClockStep <= max_steps * ClockStep
    /\ now' = now + ClockStep
    /\ last_op' = Op("clock", "none", FALSE)
    /\ UNCHANGED <<current_illness, last_recovery_time, cool_down_end_time,
                   storage, storage_ok, appended, prompt_manager>>

\* IllnessStateHandler.execute: update_illness_state, then should_get_sick and,
\* if it says so, trigger_random_illness
IllnessStateHandler_execute(max_episodes, probabilities) ==
    \E r \in RandomDraws :
    \E rc \in (IF update_branch(Mgr, now, r) = "transition" THEN RandomDraws ELSE {0}) :
        LET branch == update_branch(Mgr, now, r)
            m1 == update_illness_state(Mgr, now, r, rc)
            records == resolved(Mgr, branch, now)
        IN  /\ Len(appended) + Len(records) <= max_episodes
            /\ \E daily_probability \in probabilities, rs \in RandomDraws :
                  LET m2 == after_should_get_sick(m1, daily_probability, now, rs)
                  IN  IF should_get_sick(m1, daily_probability, now, rs)
                      THEN \E u \in WeightDraws :
                              Commit(trigger_random_illness(m2, now, u), records,
                                     Op("tick", branch, TRUE))
                      ELSE Commit(m2, records, Op("tick", branch, FALSE))

\* HealthCheckCommand.execute: get_health_status, rendered as text
HealthCheckCommand_execute ==
    /\ get_health_status(Mgr, now).is_healthy \in BOOLEAN
    /\ Commit(after_get_health_status(Mgr, now), <<>>, Op("health", "none", FALSE))

\* ForceRecoveryCommand.execute: force_recovery, then set_cool_down
ForceRecoveryCommand_execute(max_episodes) ==
    \E cool_down_days \in 1..MaxCoolDownDays :
        LET branch == IF current_illness # None THEN "recover" ELSE "healthy"
            records == resolved(Mgr, branch, now)
        IN  /\ Len(appended) + Len(records) <= max_episodes
            /\ Commit(set_cool_down(force_recovery(Mgr, now), cool_down_days, now),
                      records, Op("force_recovery", branch, FALSE))

\* ForceSickCommand.execute: trigger_random_illness; a None result is answered
\* with a failure message
ForceSickCommand_execute(draws, raise_points) ==
    \E u \in draws, raises \in raise_points :
        LET new_illness == trigger_random_illness_try(Mgr, now, u, raises)
        IN  Commit(IF new_illness.result # None
                   THEN after_get_current_illness_description(new_illness.manager)
                   ELSE new_illness.manager,
                   <<>>, Op("force_sick", raises, new_illness.result # None))

\* IllnessPlugin.initialize_components on a store: a new IllnessManager, then
\* update_illness_state
initialize_components(store, ok, t, r, rc) ==
    update_illness_state(IllnessManager(store, ok), t, r, rc)

\* the plugin is loaded again: the manager in memory is replaced by a new one
IllnessPlugin_initialize_components(max_episodes) ==
    \E r \in RandomDraws :
    \E rc \in (IF update_branch(IllnessManager(storage, storage_ok), now, r) = "transition"
                THEN RandomDraws ELSE {0}) :
        LET m0 == IllnessManager(storage, storage_ok)
            branch == update_branch(m0, now, r)
            records == resolved(m0, branch, now)
        IN  /\ Len(appended) + Len(records) <= max_episodes
            /\ Commit(initialize_components(storage, storage_ok, now, r, rc), records,
                      Op("initialize", branch, FALSE))

\* the storage collaborator starts to raise on get and set
StorageFails ==
    /\ storage_ok
    /\ storage_ok' = FALSE
    /\ UNCHANGED <<now, current_illness, last_recovery_time, cool_down_end_time,
                   storage, appended, last_op, prompt_manager>>

\* the storage collaborator answers again
StorageRecovers ==
    /\ ~storage_ok
    /\ storage_ok' = TRUE
    /\ UNCHANGED <<now, current_illness, last_recovery_time, cool_down_end_time,
                   storage, appended, last_op, prompt_manager>>

\* the wall clock is set back
ClockRollback ==
    /\ now >= ClockStep
    /\ now' = now - ClockStep
    /\ last_op' = Op("clock", "rollback", FALSE)
    /\ UNCHANGED <<current_illness, last_recovery_time, cool_down_end_time,
                   storage, storage_ok, appended, prompt_manager>>

\* the plugin freshly loaded on an empty store, at clock value 0
Init ==
    /\ now = 0
    /\ current_illness = NewManager.current_illness
    /\ last_recovery_time = NewManager.last_recovery_time
    /\ cool_down_end_time = NewManager.cool_down_end_time
    /\ storage = NewManager.storage
    /\ storage_ok = NewManager.storage_ok
    /\ appended = <<>>
    /\ last_op = Op("init", "none", FALSE)
    /\ prompt_manager = NoPrompt

Next ==
    \/ ClockAdvance(MaxClockSteps)
    \/ IllnessStateHandler_execute(MaxEpisodes, DailyProbabilities)
    \/ HealthCheckCommand_execute
    \/ ForceRecoveryCommand_execute(MaxEpisodes)
    \/ ForceSickCommand_execute(WeightDraws, {"none"})

Spec == Init /\ [][Next]_vars

\* Many episodes in a short time: /force_sick (always the first kind of the
\* weight table) and /force_recovery alternate while the clock moves a few steps.
NextHistory ==
    \/ ClockAdvance(MaxHistoryClockSteps)
    \/ ForceRecoveryCommand_execute(MaxHistoryEpisodes)
    \/ ForceSickCommand_execute({0}, {"none"})

SpecHistory == Init /\ [][NextHistory]_vars

\* The clock may be set back between the handlers.
NextRollback ==
    \/ ClockAdvance(MaxFaultClockSteps)
    \/ ClockRollback
    \/ IllnessStateHandler_execute(MaxFaultEpisodes, DailyProbabilities)
    \/ HealthCheckCommand_execute
    \/ ForceRecoveryCommand_execute(MaxFaultEpisodes)
    \/ ForceSickCommand_execute(WeightDraws, {"none"})

SpecRollback == Init /\ [][NextRollback]_vars

\* A call inside trigger_random_illness may raise.
NextRaise ==
    \/ ClockAdvance(MaxFaultClockSteps)
    \/ ForceRecoveryCommand_execute(MaxFaultEpisodes)
    \/ ForceSickCommand_execute(WeightDraws, RaisePoints)

SpecRaise == Init /\ [][NextRaise]_vars

\* The plugin is loaded at LoadTime on a store an earlier run (or anything
\* else) has written; the store may fail and answer again, and the plugin may
\* be loaded again.

\* the clock value at which the plugin is loaded
LoadTime == 4 * ClockStep

\* the dict d without one of its keys
Without(d, key) == [k \in DOMAIN d \ {key} |-> d[k]]

\* the "current_illness" dicts save_state writes, as the store may hold them:
\* a SEVERE_COLD that runs out one clock step after LoadTime and a HEADACHE
\* that is half over at LoadTime
StoredIllnesses ==
    {illness_dict(IllnessInfo("SEVERE_COLD", ClockStep, 8, "recovering")),
     illness_dict(IllnessInfo("HEADACHE", LoadTime - ClockStep, 3, "progressing"))}

\* the dicts an earlier version or a damaged store may hold instead: one key
\* is missing, or the type is no value of IllnessType
DamagedIllnesses ==
    LET headache == illness_dict(IllnessInfo("HEADACHE", LoadTime - ClockStep, 3,
                                             "progressing"))
    IN  {[headache EXCEPT !.type = "gan mao"]}
            \cup {Without(headache, key) : key \in DOMAIN headache}

\* the "illness_state" values the store may hold: {}; dicts as save_state
\* writes them, with no recovery yet or with a recovery and a cooldown that
\* is still open at LoadTime; a dict without the two timestamps
StoredStates ==
    LET state_data(illness_data, recovery, cool_down_end) ==
            [current_illness |-> illness_data,
             last_recovery_time |-> recovery,
             cool_down_end_time |-> cool_down_end,
             last_update |-> LoadTime - ClockStep]
        recovered(illness_data) ==
            state_data(illness_data, ClockStep, LoadTime + ClockStep)
    IN  {NoStateData}
            \cup {state_data(illness_data, 0, 0) : illness_data \in StoredIllnesses}
            \cup {recovered(illness_data) :
                      illness_data \in {None} \cup StoredIllnesses \cup DamagedIllnesses}
            \cup {Without(Without(recovered(illness_data), "last_recovery_time"),
                          "cool_down_end_time") : illness_data \in StoredIllnesses}

InitStore ==
    \E state_data \in StoredStates, ok \in BOOLEAN, r \in RandomDraws, rc \in RandomDraws :
        LET store == [illness_state |-> state_data, illness_history |-> <<>>]
            m0 == IllnessManager(store, ok)
            branch == update_branch(m0, LoadTime, r)
            m1 == initialize_components(store, ok, LoadTime, r, rc)
        IN  /\ now = LoadTime
            /\ current_illness = m1.current_illness
            /\ last_recovery_time = m1.last_recovery_time
            /\ cool_down_end_time = m1.cool_down_end_time
            /\ storage = m1.storage
            /\ storage_ok = m1.storage_ok
            /\ appended = resolved(m0, branch, LoadTime)
            /\ last_op = Op("initialize", branch, FALSE)
            /\ prompt_manager = NoPrompt

NextStore ==
    \/ ClockAdvance(MaxStoreClockSteps)
    \/ StorageFails
    \/ StorageRecovers
    \/ IllnessPlugin_initialize_components(MaxStoreEpisodes)
    \/ ForceRecoveryCommand_execute(MaxStoreEpisodes)
    \/ ForceSickCommand_execute({30}, {"none"})

SpecStore == InitStore /\ [][NextStore]_vars

-----------------------------------------------------------------------------
(* Properties. *)

\* every value the clock takes in Spec
ClockValues == {k * ClockStep : k \in 0..MaxClockSteps}

\* the kinds that have no successor
NoSuccessors(illness_type) == get_possible_transitions(illness_type) = <<>>

\* update_illness_state finds the nominal duration of m's illness elapsed at t
Elapsed(m, t) ==
    /\ m.current_illness # None
    /\ get_duration_hours(m.current_illness, t)
          >= get_illness_duration(m.current_illness.illness_type)

\* C1: should_get_sick answers False whenever the clock is before
\* cool_down_end_time, for every probability (100% included) and every draw,
\* sick or healthy; and after set_cool_down(d) at the current time it answers
\* False at every clock value before now + d * 24 * 3600.
C1_CooldownBlocksShouldGetSick ==
    \A p \in DailyProbabilities, r \in RandomDraws :
        /\ now < cool_down_end_time => ~should_get_sick(Mgr, p, now, r)
        /\ \A d \in 1..MaxCoolDownDays, t \in ClockValues :
              t < now + d * 24 * 3600
                  => ~should_get_sick(set_cool_down(Mgr, d, now), p, t, r)

\* a tick ran on a healthy agent inside the cooldown window and started nothing
C1_Witness ==
    /\ last_op = Op("tick", "healthy", FALSE)
    /\ current_illness = None
    /\ now < cool_down_end_time

\* C2 as stated: no illness is ever created (by a tick, by /force_sick or by a
\* transition) at a clock value before cool_down_end_time.
C2_NoIllnessStartsInCooldown ==
    (last_op.triggered \/ last_op.branch = "transition") => now >= cool_down_end_time

\* C2 as amended: the scheduler tick never triggers an illness before
\* cool_down_end_time, and when it triggers one the agent was healthy.
C2_TickNeverTriggersInCooldown ==
    (last_op.name = "tick" /\ last_op.triggered)
        => /\ now >= cool_down_end_time
           /\ last_op.branch \in {"healthy", "recover"}
           /\ current_illness # None /\ current_illness.start_time = now

\* a tick triggered an illness once a cooldown window had closed
C2_Witness ==
    /\ last_op.name = "tick" /\ last_op.triggered
    /\ cool_down_end_time > 0
    /\ now >= cool_down_end_time

\* C3: when a tick starts an illness after some resolution, a positive
\* cool_down_days has passed since that resolution (last_recovery_time).
C3_CooldownFollowsEveryResolution ==
    (last_op.name = "tick" /\ last_op.triggered /\ appended # <<>>)
        => \E d \in 1..MaxCoolDownDays : now >= last_recovery_time + d * 24 * 3600

\* the fields C4 compares
LifecycleView(m) ==
    <<m.current_illness, m.last_recovery_time, m.cool_down_end_time,
      m.storage.illness_history>>

\* C4: update_illness_state run twice at the same clock value leaves, after the
\* second run, the state the first run left, whatever the draws of either run.
C4_AdvanceIdempotent ==
    \A r1 \in RandomDraws, rc1 \in RandomDraws, r2 \in RandomDraws, rc2 \in RandomDraws :
        LET m1 == update_illness_state(Mgr, now, r1, rc1)
        IN  LifecycleView(update_illness_state(m1, now, r2, rc2)) = LifecycleView(m1)

\* C5: the stored history never holds more than 20 records, and it is the last
\* 20 (or fewer, if fewer exist) of the records the resolutions produced, in
\* the order produced.
C5_HistoryIsLast20 ==
    LET n == Len(appended) IN
    /\ Len(storage.illness_history) <= 20
    /\ storage.illness_history = IF n > 20 THEN SubSeq(appended, n - 19, n) ELSE appended

\* more than 20 resolutions have happened and the evicted record differs from
\* the oldest record kept
C5_Witness ==
    /\ Len(appended) > 20
    /\ Len(storage.illness_history) = 20
    /\ appended[Len(appended) - 20] # storage.illness_history[1]
    /\ last_op.name = "force_recovery" /\ last_op.branch = "recover"

\* the place of a stage in initial -> progressing -> recovering
StageRank(stage) ==
    CASE stage = "initial" -> 0 [] stage = "progressing" -> 1 [] stage = "recovering" -> 2

\* C6: across a tick that leaves the same illness (same kind, same start_time)
\* of a kind without successors active, the stage does not go back, and after
\* the tick it is the bucket of elapsed / nominal (< 0.3, < 0.7, otherwise).
C6_StageFollowsProgress ==
    [][(/\ last_op'.name = "tick"
        /\ current_illness # None
        /\ current_illness' # None
        /\ NoSuccessors(current_illness.illness_type)
        /\ current_illness'.illness_type = current_illness.illness_type
        /\ current_illness'.start_time = current_illness.start_time)
       => /\ StageRank(current_illness'.stage) >= StageRank(current_illness.stage)
          /\ current_illness'.stage =
                 stage_of(get_duration_hours(current_illness', now'),
                          get_illness_duration(current_illness'.illness_type))]_vars

\* C7: update_illness_state on an illness whose nominal duration has elapsed
\* and whose kind has successors, the 70% branch taken, leaves an illness of a
\* successor kind that starts now with that kind's catalog severity (from
\* SEVERE_COLD: MILD_COLD, 0.3); the history and last_recovery_time stay.
C7_TransitionResult ==
    \A r \in RandomDraws, rc \in RandomDraws :
        (/\ Elapsed(Mgr, now)
         /\ ~NoSuccessors(current_illness.illness_type)
         /\ r < 70)
        => LET m1 == update_illness_state(Mgr, now, r, rc)
               successors == get_possible_transitions(current_illness.illness_type)
           IN  /\ m1.current_illness # None
               /\ \E i \in 1..Len(successors) :
                     m1.current_illness.illness_type = successors[i]
               /\ m1.current_illness.start_time = now
               /\ m1.current_illness.severity
                      = ILLNESS_SEVERITY[m1.current_illness.illness_type]
               /\ current_illness.illness_type = "SEVERE_COLD"
                      => /\ m1.current_illness.illness_type = "MILD_COLD"
                         /\ m1.current_illness.severity = 3
               /\ m1.storage.illness_history = storage.illness_history
               /\ m1.last_recovery_time = last_recovery_time

\* a tick took the transition branch some time after the start of the clock
C7_Witness ==
    /\ last_op = Op("tick", "transition", FALSE)
    /\ current_illness.illness_type = "MILD_COLD"
    /\ current_illness.start_time = now
    /\ now >= 48 * 3600
    /\ appended = <<>>

\* C8: after a tick that took the transition branch, the new illness is in
\* stage initial, in memory and in the stored state.
C8_TransitionStageInitial ==
    (last_op.name = "tick" /\ last_op.branch = "transition")
        => /\ current_illness.stage = "initial"
           /\ storage.illness_state.current_illness.stage = "initial"

\* the history after one more record: the oldest leaves when 20 are held
WithRecord(history, record) ==
    (IF Len(history) >= 20 THEN Tail(history) ELSE history) \o <<record>>

\* C9: update_illness_state on an illness whose nominal duration has elapsed,
\* the kind without successors or the 30% branch taken, leaves no illness,
\* last_recovery_time = now, cool_down_end_time as it was, and the history one
\* record longer: kind, start_time, end_time = now, duration = now - start_time
\* and severity of the illness resolved.
C9_ResolutionResult ==
    \A r \in RandomDraws, rc \in RandomDraws :
        (/\ Elapsed(Mgr, now)
         /\ (NoSuccessors(current_illness.illness_type) \/ r >= 70))
        => LET m1 == update_illness_state(Mgr, now, r, rc)
           IN  /\ m1.current_illness = None
               /\ m1.last_recovery_time = now
               /\ m1.cool_down_end_time = cool_down_end_time
               /\ m1.storage.illness_history =
                      WithRecord(storage.illness_history,
                                 [type |-> current_illness.illness_type,
                                  start_time |-> current_illness.start_time,
                                  end_time |-> now,
                                  duration_hours |-> now - current_illness.start_time,
                                  severity |-> current_illness.severity])

\* a tick resolved an illness that had run its nominal duration and started
\* no other
C9_Witness ==
    /\ last_op = Op("tick", "recover", FALSE)
    /\ current_illness = None
    /\ last_recovery_time = now
    /\ Len(storage.illness_history) = 1
    /\ storage.illness_history[1].end_time = now
    /\ storage.illness_history[1].duration_hours >= 24 * 3600

\* the stored state says what the manager holds
InSync(m) ==
    LET state_data == m.storage.illness_state IN
    IF state_data # NoStateData
    THEN /\ {"current_illness", "last_recovery_time", "cool_down_end_time"}
                \subseteq DOMAIN state_data
         /\ state_data.current_illness = illness_dict(m.current_illness)
         /\ state_data.last_recovery_time = m.last_recovery_time
         /\ state_data.cool_down_end_time = m.cool_down_end_time
    ELSE /\ m.current_illness = None
         /\ m.last_recovery_time = 0
         /\ m.cool_down_end_time = 0

\* C10: with a store that answers, the stored state equals the manager's
\* state (illness with kind, start_time, severity and stage, last_recovery_time,
\* cool_down_end_time) in every state, and after each of update_illness_state,
\* trigger_random_illness, force_recovery and set_cool_down run from it.
C10_WriteBack ==
    storage_ok =>
        /\ InSync(Mgr)
        /\ \A r \in RandomDraws, rc \in RandomDraws :
              InSync(update_illness_state(Mgr, now, r, rc))
        /\ \A u \in WeightDraws : InSync(trigger_random_illness(Mgr, now, u))
        /\ InSync(force_recovery(Mgr, now))
        /\ \A d \in 1..MaxCoolDownDays : InSync(set_cool_down(Mgr, d, now))

\* a tick moved the stage on and the stored state holds the new stage
C10_Witness ==
    /\ last_op = Op("tick", "stage", FALSE)
    /\ current_illness.stage = "progressing"
    /\ storage.illness_state # NoStateData
    /\ storage.illness_state.current_illness.stage = "progressing"
    /\ storage.illness_state.last_update = now

\* C11: with a store that answers, save_state followed by the construction of
\* a new manager on the same store gives a manager with the same illness (none,
\* or the same kind, start_time, severity and stage), the same
\* cool_down_end_time and the same last_recovery_time.
C11_SaveLoadRoundTrip ==
    storage_ok =>
        LET fresh == IllnessManager(save_state(Mgr, now).storage, TRUE)
        IN  /\ (fresh.current_illness = None) <=> (current_illness = None)
            /\ fresh.current_illness.illness_type = current_illness.illness_type
            /\ fresh.current_illness.start_time = current_illness.start_time
            /\ fresh.current_illness.severity = current_illness.severity
            /\ fresh.current_illness.stage = current_illness.stage
            /\ fresh.cool_down_end_time = cool_down_end_time
            /\ fresh.last_recovery_time = last_recovery_time

\* the plugin was loaded again and holds an illness that was triggered and
\* saved after LoadTime, past its first stage, and a cooldown set after LoadTime
C11_Witness ==
    /\ last_op = Op("initialize", "stage", FALSE)
    /\ storage_ok
    /\ current_illness # None
    /\ current_illness.start_time >= LoadTime
    /\ current_illness.stage = "progressing"
    /\ cool_down_end_time > LoadTime + ClockStep

\* C12: when the read fails (the store raises) or the stored illness cannot be
\* parsed (no "type", a type that is no kind, no "start_time"), a manager
\* constructed on the store holds no illness, last_recovery_time 0 and
\* cool_down_end_time 0, whatever timestamps the stored dict holds.
C12_LoadFailureResets ==
    \A ok \in BOOLEAN :
        LET illness_data == dict_get(storage.illness_state, "current_illness", None)
            unreadable ==
                \/ ~ok
                \/ /\ illness_data # None
                   /\ DOMAIN illness_data # {}
                   /\ \/ "type" \notin DOMAIN illness_data
                      \/ illness_data.type \notin {IllnessTypeValue[k] : k \in IllnessType}
                      \/ "start_time" \notin DOMAIN illness_data
            fresh == IllnessManager(storage, ok)
        IN  unreadable => /\ fresh.current_illness = None
                          /\ fresh.last_recovery_time = 0
                          /\ fresh.cool_down_end_time = 0

\* the plugin was loaded on a store that answers and holds a dict with
\* timestamps and an illness of no known kind
C12_Witness ==
    /\ last_op = Op("initialize", "healthy", FALSE)
    /\ storage_ok
    /\ dict_get(dict_get(storage.illness_state, "current_illness", None),
                "type", "") = "gan mao"
    /\ dict_get(storage.illness_state, "last_recovery_time", 0) > 0
    /\ dict_get(storage.illness_state, "cool_down_end_time", 0) > now
    /\ current_illness = None
    /\ last_recovery_time = 0
    /\ cool_down_end_time = 0

\* the three fields a manager holds in memory
Memory(m) == <<m.current_illness, m.last_recovery_time, m.cool_down_end_time>>

\* C13: each of trigger_random_illness, set_cool_down, update_illness_state
\* (transition, resolution, stage change) and force_recovery, run while the
\* store raises, leaves in memory what it leaves with a store that answers and
\* leaves the store as it was; and the next save_state that succeeds stores
\* what memory holds.
C13_FailedWriteKeptInMemory ==
    LET failing == [Mgr EXCEPT !.storage_ok = FALSE]
        working == [Mgr EXCEPT !.storage_ok = TRUE]
        Kept(m_failed, m_worked) ==
            /\ Memory(m_failed) = Memory(m_worked)
            /\ m_failed.storage = storage
            /\ InSync(save_state([m_failed EXCEPT !.storage_ok = TRUE], now))
    IN  /\ \A u \in WeightDraws :
              Kept(trigger_random_illness(failing, now, u),
                   trigger_random_illness(working, now, u))
        /\ \A d \in 1..MaxCoolDownDays :
              Kept(set_cool_down(failing, d, now), set_cool_down(working, d, now))
        /\ \A r \in RandomDraws, rc \in RandomDraws :
              Kept(update_illness_state(failing, now, r, rc),
                   update_illness_state(working, now, r, rc))
        /\ Kept(force_recovery(failing, now), force_recovery(working, now))

\* an illness was resolved while the store raised (its record is not in the
\* stored history); the store answers again and /force_sick has saved: the
\* stored state holds the last_recovery_time of that resolution
C13_Witness ==
    /\ last_op = Op("force_sick", "none", TRUE)
    /\ storage_ok
    /\ appended # <<>>
    /\ storage.illness_history = <<>>
    /\ last_recovery_time = appended[1].end_time
    /\ storage.illness_state # NoStateData
    /\ storage.illness_state.last_recovery_time = last_recovery_time
    /\ storage.illness_state.last_update = now
    /\ InSync(Mgr)

\* one point of random.choices' cumulative scale in the range of each kind
KindDraws == {cum_weights[i - 1] : i \in 1..Len(weights)}

\* C14: trigger_random_illness, in every state (sick, healthy, in cooldown),
\* leaves an illness of a kind of the weight table that starts now, with that
\* kind's catalog severity and stage initial; last_recovery_time,
\* cool_down_end_time and the stored history stay as they were.
C14_TriggerReplaces ==
    \A u \in KindDraws :
        LET m1 == trigger_random_illness(Mgr, now, u)
        IN  /\ m1.current_illness # None
            /\ \E i \in 1..Len(weights) : m1.current_illness.illness_type = weights[i][1]
            /\ m1.current_illness.start_time = now
            /\ m1.current_illness.severity = ILLNESS_SEVERITY[m1.current_illness.illness_type]
            /\ m1.current_illness.stage = "initial"
            /\ m1.last_recovery_time = last_recovery_time
            /\ m1.cool_down_end_time = cool_down_end_time
            /\ m1.storage.illness_history = storage.illness_history

\* /force_sick started an illness inside a cooldown window that followed a
\* resolution
C14_Witness ==
    /\ last_op = Op("force_sick", "none", TRUE)
    /\ now < cool_down_end_time
    /\ last_recovery_time > 0
    /\ current_illness.start_time = now
    /\ current_illness.stage = "initial"
    /\ Len(storage.illness_history) = 1

\* C15: when _get_weighted_random_illness or get_illness_severity raises inside
\* trigger_random_illness, the result is None and the manager (its three fields
\* and both stored keys) is as before the call.
C15_TriggerFailureLeavesState ==
    \A u \in WeightDraws, raises \in RaisePoints \ {"none"} :
        LET new_illness == trigger_random_illness_try(Mgr, now, u, raises)
        IN  /\ new_illness.result = None
            /\ new_illness.manager = Mgr

\* /force_sick failed in the severity lookup while an older illness was held
C15_Witness ==
    /\ last_op = Op("force_sick", "severity", FALSE)
    /\ current_illness # None
    /\ current_illness.start_time < now
    /\ storage.illness_state.current_illness = illness_dict(current_illness)
    /\ storage.illness_state.last_update < now

\* C16: the elapsed time get_health_status reports is never negative, the
\* remaining time is never more than the nominal duration, and no record a
\* resolution produced has a negative duration.
C16_ElapsedClamped ==
    /\ current_illness # None
          => LET status == get_health_status(Mgr, now).current_illness
             IN  /\ status.duration_hours >= 0
                 /\ status.remaining_hours
                        <= get_illness_duration(current_illness.illness_type)
    /\ \A i \in 1..Len(appended) : appended[i].duration_hours >= 0

\* C17: get_illness_history(limit), for limit in 0 .. MaxLimit, returns the
\* last min(limit, length) records of the stored history in stored order
\* (none for limit 0), and the empty sequence when the store raises.
C17_HistoryLastLimit ==
    \A limit \in 0..MaxLimit :
        LET history == storage.illness_history
            n == Len(history)
            k == IF limit < n THEN limit ELSE n
        IN  /\ get_illness_history([Mgr EXCEPT !.storage_ok = TRUE], limit)
                   = SubSeq(history, n - k + 1, n)
            /\ get_illness_history([Mgr EXCEPT !.storage_ok = FALSE], limit) = <<>>

\* C18: with no illness, update_illness_state (whatever the draws) and
\* force_recovery leave the manager and the store as they are: no illness,
\* the two timestamps, the stored history and the stored state unchanged.
C18_HealthyNoOp ==
    current_illness = None =>
        /\ \A r \in RandomDraws, rc \in RandomDraws :
              update_illness_state(Mgr, now, r, rc) = Mgr
        /\ force_recovery(Mgr, now) = Mgr

\* a tick ran on a healthy agent some time after the last save and after a
\* resolution, and wrote nothing
C18_Witness ==
    /\ last_op = Op("tick", "healthy", FALSE)
    /\ current_illness = None
    /\ appended # <<>>
    /\ storage.illness_state # NoStateData
    /\ storage.illness_state.last_update < now
    /\ last_recovery_time < now

\* C19: get_health_status says is_healthy exactly when there is no illness,
\* in_cool_down exactly when now < cool_down_end_time, with
\* cool_down_remaining = cool_down_end_time - now then and 0 otherwise; with an
\* illness, remaining_hours = max(0, nominal duration - (now - start_time)) and
\* the text is days-based exactly when remaining_hours > 24.
C19_StatusFields ==
    LET status == get_health_status(Mgr, now)
        nominal == ILLNESS_DURATION_HOURS[current_illness.illness_type]
        elapsed == now - current_illness.start_time
    IN  /\ status.is_healthy <=> current_illness = None
        /\ status.in_cool_down <=> now < cool_down_end_time
        /\ now < cool_down_end_time => status.cool_down_remaining = cool_down_end_time - now
        /\ now >= cool_down_end_time => status.cool_down_remaining = 0
        /\ current_illness # None
              => /\ nominal - elapsed >= 0
                    => status.current_illness.remaining_hours = nominal - elapsed
                 /\ nominal - elapsed < 0 => status.current_illness.remaining_hours = 0
                 /\ status.current_illness.recovery_time_text \in {"days", "hours"}
                 /\ status.current_illness.recovery_time_text = "days"
                       <=> status.current_illness.remaining_hours > 24 * 3600

\* /health ran inside a cooldown window on an illness with exactly 24 hours
\* left
C19_Witness ==
    /\ last_op = Op("health", "none", FALSE)
    /\ current_illness # None
    /\ now < cool_down_end_time
    /\ get_health_status(Mgr, now).current_illness.remaining_hours = 24 * 3600
    /\ get_health_status(Mgr, now).current_illness.recovery_time_text = "hours"

\* C20: the catalog has 11 kinds; each has a positive nominal duration, a
\* non-empty description and a severity between 0 and 1; every successor of a
\* kind is a kind without successors; so the illness a transition leaves has no
\* successors.
C20_CatalogShape ==
    /\ Cardinality(IllnessType) = 11
    /\ DOMAIN ILLNESS_DURATION_HOURS = IllnessType
    /\ DOMAIN ILLNESS_DESCRIPTIONS = IllnessType
    /\ DOMAIN ILLNESS_SEVERITY = IllnessType
    /\ \A k \in IllnessType :
          /\ get_illness_duration(k) > 0
          /\ get_illness_description(k) # ""
          /\ get_illness_severity(k) >= 0 /\ get_illness_severity(k) <= 10
          /\ \A i \in 1..Len(get_possible_transitions(k)) :
                /\ get_possible_transitions(k)[i] \in IllnessType
                /\ get_possible_transitions(get_possible_transitions(k)[i]) = <<>>
    /\ last_op.branch = "transition"
          => get_possible_transitions(current_illness.illness_type) = <<>>

\* a tick moved an illness to its successor, which has none
C20_Witness ==
    /\ last_op.name = "tick"
    /\ last_op.branch = "transition"
    /\ current_illness # None
    /\ current_illness.illness_type \in IllnessType
    /\ NoSuccessors(current_illness.illness_type)

\* the weight of a kind in the weights dict
WeightOf(kind) ==
    LET i == CHOOSE j \in 1..Len(weights) : weights[j][1] = kind IN weights[i][2]

\* the weights dict has one entry for each of the 11 kinds, each weight a
\* positive integer, 141 in total, 30 for MILD_COLD and 3 for SEVERE_COLD;
\* every point of the cumulative scale selects a kind, every kind is selected
\* by exactly as many points as its weight
WeightTableShape ==
    /\ Len(weights) = 11
    /\ {weights[i][1] : i \in 1..Len(weights)} = IllnessType
    /\ \A i \in 1..Len(weights) : weights[i][2] \in Nat \ {0}
    /\ total_weight = 141
    /\ WeightOf("MILD_COLD") = 30
    /\ WeightOf("SEVERE_COLD") = 3
    /\ \A u \in 0..(total_weight - 1) : _get_weighted_random_illness(u) \in IllnessType
    /\ \A kind \in IllnessType :
          Cardinality({u \in 0..(total_weight - 1) :
                          _get_weighted_random_illness(u) = kind}) = WeightOf(kind)

\* C21: _get_weighted_random_illness makes one draw over a table that gives
\* each of the 11 kinds a positive integer weight (141 in total, MILD_COLD 30,
\* SEVERE_COLD 3), so that every kind and nothing but a kind is selected; and
\* the illness trigger_random_illness leaves, for each point of the scale, is
\* of the kind that point selects.
C21_WeightTable ==
    /\ WeightTableShape
    /\ \A u \in KindDraws \cup WeightDraws :
          trigger_random_illness(Mgr, now, u).current_illness.illness_type
              = _get_weighted_random_illness(u)
    /\ last_op.triggered => current_illness.illness_type \in IllnessType

\* /force_sick drew the last point of the scale and started a SEVERE_COLD
C21_Witness ==
    /\ last_op = Op("force_sick", "none", TRUE)
    /\ current_illness.illness_type = "SEVERE_COLD"
    /\ current_illness.start_time = now
    /\ _get_weighted_random_illness(total_weight - 1) = "SEVERE_COLD"

\* C22: a scheduler tick never overwrites an active illness.  should_get_sick
\* is false for every probability while an illness is present; within a tick
\* trigger_random_illness runs only on the state left by update_illness_state
\* when that state is healthy and now >= cool_down_end_time; with probability
\* 0 the tick never starts an illness and with probability 1.0 it starts one
\* exactly in that state.
C22_TickNeverOverwrites ==
    /\ \A p \in DailyProbabilities, rs \in RandomDraws :
          current_illness # None => ~should_get_sick(Mgr, p, now, rs)
    /\ \A r \in RandomDraws, rc \in RandomDraws, rs \in RandomDraws :
          LET m1 == update_illness_state(Mgr, now, r, rc)
              free == m1.current_illness = None /\ now >= m1.cool_down_end_time
          IN  /\ ~should_get_sick(m1, 0, now, rs)
              /\ should_get_sick(m1, 100, now, rs) <=> free
              /\ ~free => \A p \in DailyProbabilities : ~should_get_sick(m1, p, now, rs)
    /\ (last_op.name = "tick" /\ last_op.triggered)
          => /\ last_op.branch \in {"healthy", "recover"}
             /\ now >= cool_down_end_time
    /\ (last_op.name = "tick" /\ last_op.branch \in {"stage", "transition"})
          => ~last_op.triggered /\ current_illness # None

\* a tick found an illness that had not run its course, outside any cooldown,
\* and left it in place
C22_Witness ==
    /\ last_op = Op("tick", "stage", FALSE)
    /\ current_illness # None
    /\ current_illness.start_time < now
    /\ ~Elapsed(Mgr, now)
    /\ now >= cool_down_end_time

-----------------------------------------------------------------------------
(* Recovery under a periodic scheduler: an illness of any kind starts at time
   0, probability.daily_probability is 0, and the handler runs at every value
   of the clock before the clock moves on. *)

InitLive ==
    \E u \in KindDraws :
        LET m == trigger_random_illness(NewManager, 0, u)
        IN  /\ now = 0
            /\ current_illness = m.current_illness
            /\ last_recovery_time = m.last_recovery_time
            /\ cool_down_end_time = m.cool_down_end_time
            /\ storage = m.storage
            /\ storage_ok = m.storage_ok
            /\ appended = <<>>
            /\ last_op = Op("force_sick", "none", TRUE)
            /\ prompt_manager = NoPrompt

\* the clock moves once the handler has run at its current value
ClockLive == last_op.name = "tick" /\ ClockAdvance(MaxLiveClockSteps)

\* the handler with probability.daily_probability = 0
TickLive == IllnessStateHandler_execute(MaxLiveEpisodes, {0})

NextLive ==
    \/ ClockLive
    \/ TickLive

SpecLive == InitLive /\ [][NextLive]_vars /\ WF_vars(ClockLive) /\ WF_vars(TickLive)

\* C23: with the clock advancing, ticks occurring and probability 0, every
\* illness eventually resolves to healthy; an illness that came from a
\* transition never transitions again (the episode takes at most one
\* transition); and update_illness_state at or after start_time + nominal
\* duration of a kind without successors leaves the agent healthy.
C23_RecoveryLiveness ==
    /\ [](\A r \in RandomDraws, rc \in RandomDraws :
            /\ (Elapsed(Mgr, now) /\ NoSuccessors(current_illness.illness_type))
                  => update_illness_state(Mgr, now, r, rc).current_illness = None
            /\ (current_illness # None /\ current_illness.start_time > 0)
                  => /\ NoSuccessors(current_illness.illness_type)
                     /\ update_branch(Mgr, now, r) # "transition"
            /\ last_op.branch = "transition"
                  => /\ current_illness # None
                     /\ current_illness.start_time = now
                     /\ NoSuccessors(current_illness.illness_type))
    /\ (current_illness # None) ~> (current_illness = None)

\* a tick resolved the MILD_COLD that a SEVERE_COLD had transitioned to
C23_Witness ==
    /\ last_op = Op("tick", "recover", FALSE)
    /\ current_illness = None
    /\ Len(appended) = 1
    /\ appended[1].type = "MILD_COLD"
    /\ appended[1].start_time > 0
    /\ appended[1].end_time = now

-----------------------------------------------------------------------------
(* /force_recovery interleaved with the handler and /health only: nothing
   calls trigger_random_illness unconditionally. *)

NextRecovery ==
    \/ ClockAdvance(MaxClockSteps)
    \/ IllnessStateHandler_execute(MaxEpisodes, DailyProbabilities)
    \/ HealthCheckCommand_execute
    \/ ForceRecoveryCommand_execute(MaxEpisodes)

SpecRecovery == Init /\ [][NextRecovery]_vars

\* C24: /force_recovery (force_recovery, then set_cool_down(days), days > 0)
\* at time t from any state leaves the agent healthy with cool_down_end_time
\* = t + days * 24 * 3600, and while it is interleaved with ticks and status
\* queries only, the agent is healthy at every time before cool_down_end_time.
C24_ForcedRecoveryHolds ==
    /\ \A cool_down_days \in 1..MaxCoolDownDays :
          LET m == set_cool_down(force_recovery(Mgr, now), cool_down_days, now)
          IN  /\ m.current_illness = None
              /\ m.cool_down_end_time = now + cool_down_days * 24 * 3600
              /\ now < m.cool_down_end_time
              /\ \A p \in DailyProbabilities, rs \in RandomDraws :
                    ~should_get_sick(update_illness_state(m, now, 0, 0), p, now, rs)
    /\ last_op.name = "force_recovery"
          => /\ current_illness = None
             /\ \E cool_down_days \in 1..MaxCoolDownDays :
                   cool_down_end_time = now + cool_down_days * 24 * 3600
    /\ now < cool_down_end_time => current_illness = None

\* after /force_recovery ended an illness, a tick ran later inside the cooldown
\* window and left the agent healthy
C24_Witness ==
    /\ last_op = Op("tick", "healthy", FALSE)
    /\ appended # <<>>
    /\ last_recovery_time < now
    /\ now < cool_down_end_time
    /\ current_illness = None

\* a step in which an illness was resolved to healthy (by update_illness_state
\* or by force_recovery), whatever the handler did afterwards
Resolution == current_illness # None /\ last_op'.branch = "recover"

\* C25: with a working store, illness_history changes only in a step that
\* resolves an illness to healthy; such a step appends exactly one record, with
\* the kind and start_time of the illness that was current; a step that
\* transitions or overwrites an illness appends nothing; and the history holds
\* as many records as there were resolutions.
C25_HistoryOnlyOnResolution ==
    [][LET history == storage.illness_history
           after == storage'.illness_history
       IN  /\ (after # history) <=> Resolution
           /\ (Len(appended') # Len(appended)) <=> Resolution
           /\ last_op'.branch = "recover" => current_illness # None
           /\ Resolution
                 => /\ Len(after) = Len(history) + 1
                    /\ SubSeq(after, 1, Len(history)) = history
                    /\ after[Len(after)].type = current_illness.illness_type
                    /\ after[Len(after)].start_time = current_illness.start_time
                    /\ after[Len(after)].end_time = now
           /\ (last_op'.branch = "transition"
                  \/ (last_op'.name = "force_sick" /\ current_illness # None))
                 => after = history
           /\ Len(after) = Len(appended')]_vars

\* a tick resolved an illness and triggered the next one in the same run: the
\* one record is of the illness that was resolved, not of the new one
C25_Witness ==
    /\ last_op = Op("tick", "recover", TRUE)
    /\ Len(storage.illness_history) = 1
    /\ storage.illness_history[1].start_time < now
    /\ storage.illness_history[1].end_time = now
    /\ current_illness # None
    /\ current_illness.start_time = now

\* C26: after construction, last_recovery_time changes only in a step that
\* resolves an illness, which sets it to the time of the resolution, never
\* below the end_time of the newest history record; cool_down_end_time
\* changes only by set_cool_down (/force_recovery).  Transitions, stage
\* updates, trigger_random_illness, should_get_sick and get_health_status
\* change neither.
C26_TimestampFrame ==
    [][/\ last_recovery_time' # last_recovery_time => Resolution
       /\ Resolution => last_recovery_time' = now'
       /\ storage'.illness_history # <<>>
             => last_recovery_time'
                   >= storage'.illness_history[Len(storage'.illness_history)].end_time
       /\ cool_down_end_time' # cool_down_end_time
             => /\ last_op'.name = "force_recovery"
                /\ \E cool_down_days \in 1..MaxCoolDownDays :
                      cool_down_end_time' = now' + cool_down_days * 24 * 3600
       /\ last_op'.name = "tick" /\ last_op'.branch # "recover"
             => UNCHANGED <<last_recovery_time, cool_down_end_time>>
       /\ last_op'.name \in {"force_sick", "health"}
             => UNCHANGED <<last_recovery_time, cool_down_end_time>>]_vars

\* a tick resolved an illness after a cooldown window that /force_recovery had
\* set: last_recovery_time is the time of the tick, cool_down_end_time is the
\* one /force_recovery left
C26_Witness ==
    /\ last_op.name = "tick" /\ last_op.branch = "recover"
    /\ last_recovery_time = now
    /\ cool_down_end_time = 24 * 3600
    /\ cool_down_end_time <= now
    /\ storage.illness_history[1].end_time = now

\* C27: get_health_status, should_get_sick, get_illness_history and
\* get_current_illness_description are read-only: each leaves the illness with
\* its stored stage, last_recovery_time, cool_down_end_time and both stored
\* keys as they were, also when the nominal duration has elapsed; a /health
\* step changes none of them.
C27_QueriesReadOnly ==
    [][/\ after_get_health_status(Mgr, now) = Mgr
       /\ \A p \in DailyProbabilities, r \in RandomDraws :
             after_should_get_sick(Mgr, p, now, r) = Mgr
       /\ \A limit \in 0..MaxLimit : after_get_illness_history(Mgr, limit) = Mgr
       /\ after_get_current_illness_description(Mgr) = Mgr
       /\ last_op'.name = "health"
             => UNCHANGED <<current_illness, last_recovery_time, cool_down_end_time,
                            storage, storage_ok>>]_vars

\* /health ran on an illness whose nominal duration had elapsed: the illness is
\* still there, its stage still the one stored when it began
C27_Witness ==
    /\ last_op = Op("health", "none", FALSE)
    /\ Elapsed(Mgr, now)
    /\ current_illness.stage = "initial"
    /\ storage.illness_state.current_illness.stage = "initial"
    /\ get_health_status(Mgr, now).current_illness.remaining_hours = 0

-----------------------------------------------------------------------------
(* The prompt component: IllnessPrompt holds an IllnessManager of its own on
   the plugin's store; the handler and the commands work on the plugin's. *)

\* IllnessPrompt.__init__: a new IllnessManager on plugin_storage (load_state)
IllnessPrompt_init ==
    LET m == IllnessManager(storage, storage_ok)
    IN  /\ prompt_manager' = [constructed |-> TRUE,
                              current_illness |-> m.current_illness,
                              last_recovery_time |-> m.last_recovery_time,
                              cool_down_end_time |-> m.cool_down_end_time]
        /\ last_op' = Op("prompt_init", "none", FALSE)
        /\ UNCHANGED <<now, current_illness, last_recovery_time, cool_down_end_time,
                       storage, storage_ok, appended>>

\* IllnessPrompt.execute: "" without a description of the illness of its own
\* manager, else a prompt built on that description
IllnessPrompt_execute ==
    /\ prompt_manager.constructed
    /\ LET illness_desc == get_current_illness_description(prompt_manager)
       IN  last_op' = Op("prompt",
                         IF illness_desc \in {"None", ""} THEN "" ELSE illness_desc, FALSE)
    /\ UNCHANGED <<now, current_illness, last_recovery_time, cool_down_end_time,
                   storage, storage_ok, appended, prompt_manager>>

NextPrompt ==
    \/ ClockAdvance(MaxPromptClockSteps)
    \/ IllnessStateHandler_execute(MaxPromptEpisodes, DailyProbabilities)
    \/ ForceRecoveryCommand_execute(MaxPromptEpisodes)
    \/ ForceSickCommand_execute(WeightDraws, {"none"})
    \/ IllnessPrompt_init
    \/ IllnessPrompt_execute

SpecPrompt == Init /\ [][NextPrompt]_vars

\* the kind and start_time of an illness (those of None for none)
Affliction(illness) ==
    [illness_type |-> illness.illness_type, start_time |-> illness.start_time]

\* C28: once constructed, the prompt component's own manager reports at every
\* later time the same illness (kind and start_time, or none) as the plugin's
\* manager, also after the plugin's manager resolved, transitioned or
\* triggered an illness; and the prompt it builds is empty exactly when the
\* plugin's manager has no illness.
C28_PromptAgrees ==
    /\ prompt_manager.constructed
          => Affliction(prompt_manager.current_illness) = Affliction(current_illness)
    /\ last_op.name = "prompt" => (last_op.branch = "" <=> current_illness = None)
====
